---- MODULE Spec2Model ----
(***************************************************************************)
(* State-machine model of the D-Shield mock backend (src/main.py): the     *)
(* EmBrain entity store (search, tag update), the Social Dome feed, and    *)
(* the Napoleon job tracker (run, status), the latter both as whole        *)
(* sequential requests and as statement-interleaved thread-pool requests.  *)
(*                                                                         *)
(* Strings that the code lower-cases, strips or searches are sequences of  *)
(* one-character strings; identifiers that are only compared are strings.  *)
(***************************************************************************)
EXTENDS Integers, Sequences, FiniteSets, TLC

VARIABLES
    EMBRAIN_FIXTURES,   \* main.py:103  list of entities, tags mutated in place
    SOCIAL_FEED,        \* main.py:170  list of posts, fixed at import time
    JOBS,               \* main.py:199  dict job_id -> RunStatus
    hist,               \* per stored job: the responses get_status gave since run stored it
    last,               \* the last completed request and its response
    pc,                 \* per worker thread: position inside napoleon_status
    local,              \* per worker thread: the handler's local variables
    returned            \* number of thread-pool get_status calls that have ended

vars == <<EMBRAIN_FIXTURES, SOCIAL_FEED, JOBS, hist, last, pc, local, returned>>

Range(s) == {s[i] : i \in 1..Len(s)}

Min(a, b) == IF a < b THEN a ELSE b

Max(a, b) == IF a > b THEN a ELSE b

(***************************************************************************)
(* str.lower() and str.strip() on character sequences.                     *)
(***************************************************************************)
UpperChars == <<"A","B","C","D","E","F","G","H","I","J","K","L","M",
                "N","O","P","Q","R","S","T","U","V","W","X","Y","Z">>

LowerChars == <<"a","b","c","d","e","f","g","h","i","j","k","l","m",
                "n","o","p","q","r","s","t","u","v","w","x","y","z">>

Whitespace == {" ", "\t", "\n", "\r"}

LowerChar(c) ==
    IF \E i \in 1..Len(UpperChars) : UpperChars[i] = c
    THEN LowerChars[CHOOSE i \in 1..Len(UpperChars) : UpperChars[i] = c]
    ELSE c

Lower(s) == [i \in 1..Len(s) |-> LowerChar(s[i])]

RECURSIVE LStrip(_)
LStrip(s) ==
    IF s # <<>> /\ Head(s) \in Whitespace THEN LStrip(Tail(s)) ELSE s

RECURSIVE RStrip(_)
RStrip(s) ==
    IF s # <<>> /\ s[Len(s)] \in Whitespace
    THEN RStrip(SubSeq(s, 1, Len(s) - 1))
    ELSE s

Strip(s) == RStrip(LStrip(s))

\* Python's  q in s  on strings: q occurs in s as a contiguous substring
Contains(s, q) ==
    \E i \in 0..(Len(s) - Len(q)) : SubSeq(s, i + 1, i + Len(q)) = q

(***************************************************************************)
(* EmBrain fixtures (main.py:103-107)                                      *)
(***************************************************************************)
Tag_priority == <<"p","r","i","o","r","i","t","y">>
Tag_us       == <<"u","s">>
Tag_vendor   == <<"v","e","n","d","o","r">>
Tag_watch    == <<"w","a","t","c","h">>

Name_AlexRivera == <<"A","l","e","x"," ","R","i","v","e","r","a">>
Name_Northwind  == <<"N","o","r","t","h","w","i","n","d"," ",
                     "A","n","a","l","y","t","i","c","s">>
Name_JordanLee  == <<"J","o","r","d","a","n"," ","L","e","e">>

InitialEntities ==
    << [id |-> "p_001", name |-> Name_AlexRivera, type |-> "person",
        tags |-> <<Tag_priority, Tag_us>>, notes |-> "Analyst-verified."],
       [id |-> "o_101", name |-> Name_Northwind, type |-> "organization",
        tags |-> <<Tag_vendor>>, notes |-> "Enriched from filings."],
       [id |-> "p_002", name |-> Name_JordanLee, type |-> "person",
        tags |-> <<Tag_watch>>, notes |-> "None"] >>

(***************************************************************************)
(* embrain_search (main.py:115-126)                                        *)
(***************************************************************************)
NormQuery(q) == Strip(Lower(q))

\* (body.tag or "").lower().strip(); a missing tag is the empty sequence
NormTag(tag) == Strip(Lower(tag))

LowerTags(tags) == [i \in 1..Len(tags) |-> Lower(tags[i])]

EntityMatches_RawTags(e, q, tag) ==
    /\ ~(q # <<>> /\ ~Contains(Lower(e.name), q))
    /\ ~(tag # <<>> /\ tag \notin Range(e.tags))

\* lines 121-124: neither  continue  is taken
EntityMatches(e, q, tag) ==
    /\ ~(q # <<>> /\ ~Contains(Lower(e.name), q))
    /\ ~(tag # <<>> /\ tag \notin Range(LowerTags(e.tags)))

SearchResults(entities, body) ==
    LET q   == NormQuery(body.q)
        tag == NormTag(body.tag)
    IN  SelectSeq(entities, LAMBDA e : EntityMatches(e, q, tag))

embrain_search(body) ==
    /\ last' = [op |-> "search", arg |-> body, status |-> 200,
                resp |-> SearchResults(EMBRAIN_FIXTURES, body)]
    /\ UNCHANGED <<EMBRAIN_FIXTURES, SOCIAL_FEED, JOBS, hist, pc, local, returned>>

(***************************************************************************)
(* embrain_update_tags (main.py:135-146)                                   *)
(***************************************************************************)
\* [t for t in e.tags if t not in set(body.remove)]
RemoveTags(tags, remove) == SelectSeq(tags, LAMBDA t : t \notin Range(remove))

RECURSIVE AddTags_NoCheck(_, _)
AddTags_NoCheck(tags, add) ==
    IF add = <<>> THEN tags
    ELSE AddTags_NoCheck(Append(tags, Head(add)), Tail(add))

\* for t in body.add: if t not in e.tags: e.tags.append(t)
RECURSIVE AddTags(_, _)
AddTags(tags, add) ==
    IF add = <<>> THEN tags
    ELSE AddTags(IF Head(add) \in Range(tags) THEN tags ELSE Append(tags, Head(add)),
                 Tail(add))

FindEntity_DefaultFirst(entities, id) ==
    IF \E i \in 1..Len(entities) : entities[i].id = id
    THEN CHOOSE i \in 1..Len(entities) :
            /\ entities[i].id = id
            /\ \A k \in 1..(i - 1) : entities[k].id # id
    ELSE 1

\* the loop  for e in EMBRAIN_FIXTURES: if e.id == body.id : the index of the
\* first entity with that id, 0 when the loop falls through
FindEntity(entities, id) ==
    IF \E i \in 1..Len(entities) : entities[i].id = id
    THEN CHOOSE i \in 1..Len(entities) :
            /\ entities[i].id = id
            /\ \A k \in 1..(i - 1) : entities[k].id # id
    ELSE 0

UpdatedTags(tags, body) == AddTags(RemoveTags(tags, body.remove), body.add)

embrain_update_tags(body) ==
    LET i == FindEntity(EMBRAIN_FIXTURES, body.id) IN
    /\ IF i = 0
       THEN /\ last' = [op |-> "update_tags", arg |-> body, status |-> 404,
                        resp |-> "Entity not found"]
            /\ UNCHANGED EMBRAIN_FIXTURES
       ELSE LET e == [EMBRAIN_FIXTURES[i] EXCEPT
                         !.tags = UpdatedTags(EMBRAIN_FIXTURES[i].tags, body)]
            IN  /\ EMBRAIN_FIXTURES' = [EMBRAIN_FIXTURES EXCEPT ![i] = e]
                /\ last' = [op |-> "update_tags", arg |-> body, status |-> 200,
                            resp |-> e]
    /\ UNCHANGED <<SOCIAL_FEED, JOBS, hist, pc, local, returned>>

(***************************************************************************)
(* Social Dome feed (main.py:170-181)                                      *)
(***************************************************************************)
Age_t1 == 5400
Age_t2 == 3200
Age_t3 == 1200
Age_t4 == 300

\* The four time.time() readings taken while the module is imported, in
\* seconds since the first one: each is the previous one or a second later.
ClockReadings ==
    {c \in [1..4 -> {0, 1}] : \A i \in 1..3 : c[i] <= c[i + 1]}

MakeFeed(c) ==
    << [id |-> "t1", author |-> "@k12_watch",    score |-> "green",  created_at |-> c[1] - Age_t1],
       [id |-> "t2", author |-> "@city_updates", score |-> "yellow", created_at |-> c[2] - Age_t2],
       [id |-> "t3", author |-> "@alerts_bot",   score |-> "green",  created_at |-> c[3] - Age_t3],
       [id |-> "t4", author |-> "@ops_team",     score |-> "red",    created_at |-> c[4] - Age_t4] >>

\* p goes after every post already placed whose key is >= its own: posts with
\* equal keys keep their input order, as sorted(..., reverse=True) does
InsertDesc(sorted, p) ==
    LET n == Cardinality({i \in 1..Len(sorted) : sorted[i].created_at >= p.created_at})
    IN  SubSeq(sorted, 1, n) \o <<p>> \o SubSeq(sorted, n + 1, Len(sorted))

RECURSIVE SortFrom(_, _)
SortFrom(sorted, rest) ==
    IF rest = <<>> THEN sorted
    ELSE SortFrom(InsertDesc(sorted, Head(rest)), Tail(rest))

SortedDesc_Unsorted(feed) == feed

\* sorted(SOCIAL_FEED, key=lambda p: p.created_at, reverse=True)
SortedDesc(feed) == SortFrom(<<>>, feed)

\* items[:limit]; a negative limit counts from the end of the list
SliceTo(items, limit) ==
    IF limit >= 0
    THEN SubSeq(items, 1, Min(limit, Len(items)))
    ELSE SubSeq(items, 1, Max(0, Len(items) + limit))

FeedResult(feed, limit) == SliceTo(SortedDesc(feed), limit)

social_dome_feed(limit) ==
    /\ last' = [op |-> "feed", arg |-> limit, status |-> 200,
                resp |-> FeedResult(SOCIAL_FEED, limit)]
    /\ UNCHANGED <<EMBRAIN_FIXTURES, SOCIAL_FEED, JOBS, hist, pc, local, returned>>

(***************************************************************************)
(* Napoleon job tracker (main.py:191-230)                                  *)
(* A log line is the sequence of the pieces it is formatted from.          *)
(***************************************************************************)
step_messages ==
    << <<"Dispatching research agents">>,
       <<"Collecting sources">>,
       <<"Synthesizing findings">>,
       <<"Compiling report">> >>

ReportUrl == "/mock/reports/sample.pdf"

\* f"Queued job for {req.poi}"
QueuedLine(poi) == <<"Queued job for ", poi>>

NewJob(job_id, poi) ==
    [job_id |-> job_id, status |-> "queued", progress |-> 0,
     activity |-> <<QueuedLine(poi)>>, report_url |-> "None"]

Put(f, k, v) == [x \in DOMAIN f \cup {k} |-> IF x = k THEN v ELSE f[x]]

\* job_id is uuid.uuid4().hex[:10]: 40 random bits, not checked against JOBS
napoleon_run(req, job_id) ==
    LET status == NewJob(job_id, req.poi) IN
    /\ JOBS' = Put(JOBS, job_id, status)
    /\ hist' = Put(hist, job_id, <<>>)
    /\ last' = [op |-> "run", arg |-> req.poi, status |-> 200, resp |-> status]
    /\ UNCHANGED <<EMBRAIN_FIXTURES, SOCIAL_FEED, pc, local, returned>>

ProgressCap == 100

ProgressStep == 25

NextProg(progress) == Min(ProgressCap, progress + ProgressStep)

StatusFor_Early(next_prog) ==
    IF next_prog < ProgressCap - ProgressStep THEN "running" ELSE "completed"

\* "running" if next_prog < 100 else "completed"
StatusFor(next_prog) == IF next_prog < ProgressCap THEN "running" ELSE "completed"

CanAppend_OffByOne(activity) == Len(activity) - 1 < Len(step_messages) - 1

\* len(status.activity) - 1 < len(step_messages)
CanAppend(activity) == Len(activity) - 1 < Len(step_messages)

\* step_messages[len(status.activity) - 1], 0-based in the code
NextMessage(activity) == step_messages[(Len(activity) - 1) + 1]

\* lines 223-229, run on a job that is not completed
AdvanceBody(job) ==
    LET next_prog == NextProg(job.progress)
        st        == StatusFor(next_prog)
        act       == IF CanAppend(job.activity)
                     THEN Append(job.activity, NextMessage(job.activity))
                     ELSE job.activity
    IN  [job EXCEPT !.progress = next_prog,
                    !.status = st,
                    !.activity = act,
                    !.report_url = IF st = "completed" THEN ReportUrl ELSE @]

Advance_LogEveryPoll(job) ==
    [AdvanceBody(job) EXCEPT
        !.activity = Append(job.activity,
                            step_messages[Min(Len(job.activity), Len(step_messages))])]

\* lines 216-229: the job after one status read
Advance(job) == IF job.status # "completed" THEN AdvanceBody(job) ELSE job

MaxPolls == 6

napoleon_status(job_id) ==
    /\ IF job_id \notin DOMAIN JOBS
       THEN /\ last' = [op |-> "status", arg |-> job_id, status |-> 404,
                        resp |-> "Job not found"]
            /\ UNCHANGED <<JOBS, hist>>
       ELSE /\ Len(hist[job_id]) < MaxPolls
            /\ JOBS' = [JOBS EXCEPT ![job_id] = Advance(@)]
            /\ hist' = [hist EXCEPT ![job_id] = Append(@, JOBS'[job_id])]
            /\ last' = [op |-> "status", arg |-> job_id, status |-> 200,
                        resp |-> JOBS'[job_id]]
    /\ UNCHANGED <<EMBRAIN_FIXTURES, SOCIAL_FEED, pc, local, returned>>

(***************************************************************************)
(* napoleon_status run by the thread pool (main.py:210-230): the handler   *)
(* is a plain def, so concurrent requests run it on worker threads with    *)
(* no lock; a thread may be pre-empted between any two reads or writes of  *)
(* the shared RunStatus.  All threads poll the job stored under ConcJobId. *)
(***************************************************************************)
NThreads == 2

MaxCalls == 5

Threads == 1..NThreads

ConcJobId == "j1"

ConcPoi == "Acme Corp"

IdleLocal == [next_prog |-> 0, msg |-> <<>>, raised |-> "None"]

Started == returned + Cardinality({t \in Threads : pc[t] # "idle"})

Goto(t, label) == pc' = [pc EXCEPT ![t] = label]

\* line 212-214: status = JOBS.get(job_id); if not status: raise 404
T_get(t) ==
    /\ pc[t] = "idle"
    /\ Started < MaxCalls
    /\ IF ConcJobId \in DOMAIN JOBS
       THEN /\ Goto(t, "test_completed")
            /\ local' = [local EXCEPT ![t] = IdleLocal]
            /\ UNCHANGED returned
       ELSE /\ local' = [local EXCEPT ![t] = [IdleLocal EXCEPT !.raised = "HTTP404"]]
            /\ returned' = returned + 1
            /\ UNCHANGED pc
    /\ UNCHANGED <<EMBRAIN_FIXTURES, SOCIAL_FEED, JOBS, hist, last>>

\* line 216: if status.status != "completed"
T_test_completed(t) ==
    /\ pc[t] = "test_completed"
    /\ IF JOBS[ConcJobId].status # "completed"
       THEN Goto(t, "read_progress")
       ELSE Goto(t, "return")
    /\ UNCHANGED <<EMBRAIN_FIXTURES, SOCIAL_FEED, JOBS, hist, last, local, returned>>

\* line 223: next_prog = min(100, status.progress + 25)
T_read_progress(t) ==
    /\ pc[t] = "read_progress"
    /\ local' = [local EXCEPT ![t].next_prog = NextProg(JOBS[ConcJobId].progress)]
    /\ Goto(t, "write_progress")
    /\ UNCHANGED <<EMBRAIN_FIXTURES, SOCIAL_FEED, JOBS, hist, last, returned>>

\* line 224: status.progress = next_prog
T_write_progress(t) ==
    /\ pc[t] = "write_progress"
    /\ JOBS' = [JOBS EXCEPT ![ConcJobId].progress = local[t].next_prog]
    /\ Goto(t, "write_status")
    /\ UNCHANGED <<EMBRAIN_FIXTURES, SOCIAL_FEED, hist, last, local, returned>>

\* line 225: status.status = "running" if next_prog < 100 else "completed"
T_write_status(t) ==
    /\ pc[t] = "write_status"
    /\ JOBS' = [JOBS EXCEPT ![ConcJobId].status = StatusFor(local[t].next_prog)]
    /\ Goto(t, "check_len")
    /\ UNCHANGED <<EMBRAIN_FIXTURES, SOCIAL_FEED, hist, last, local, returned>>

\* line 226: if len(status.activity) - 1 < len(step_messages)
T_check_len(t) ==
    /\ pc[t] = "check_len"
    /\ IF CanAppend(JOBS[ConcJobId].activity)
       THEN Goto(t, "index")
       ELSE Goto(t, "test_report")
    /\ UNCHANGED <<EMBRAIN_FIXTURES, SOCIAL_FEED, JOBS, hist, last, local, returned>>

\* line 227, the argument: step_messages[len(status.activity) - 1]; the length
\* is read again, and an index past the list raises IndexError (a 500)
T_index(t) ==
    /\ pc[t] = "index"
    /\ IF Len(JOBS[ConcJobId].activity) - 1 < Len(step_messages)
       THEN /\ local' = [local EXCEPT ![t].msg = NextMessage(JOBS[ConcJobId].activity)]
            /\ Goto(t, "append")
            /\ UNCHANGED returned
       ELSE /\ local' = [local EXCEPT ![t].raised = "IndexError"]
            /\ Goto(t, "idle")
            /\ returned' = returned + 1
    /\ UNCHANGED <<EMBRAIN_FIXTURES, SOCIAL_FEED, JOBS, hist, last>>

\* line 227, the call: status.activity.append(<the message indexed>)
T_append(t) ==
    /\ pc[t] = "append"
    /\ JOBS' = [JOBS EXCEPT ![ConcJobId].activity = Append(@, local[t].msg)]
    /\ Goto(t, "test_report")
    /\ UNCHANGED <<EMBRAIN_FIXTURES, SOCIAL_FEED, hist, last, local, returned>>

\* line 228-229: if status.status == "completed": status.report_url = ...
T_test_report(t) ==
    /\ pc[t] = "test_report"
    /\ IF JOBS[ConcJobId].status = "completed"
       THEN JOBS' = [JOBS EXCEPT ![ConcJobId].report_url = ReportUrl]
       ELSE UNCHANGED JOBS
    /\ Goto(t, "return")
    /\ UNCHANGED <<EMBRAIN_FIXTURES, SOCIAL_FEED, hist, last, local, returned>>

\* line 230: return status
T_return(t) ==
    /\ pc[t] = "return"
    /\ Goto(t, "idle")
    /\ returned' = returned + 1
    /\ UNCHANGED <<EMBRAIN_FIXTURES, SOCIAL_FEED, JOBS, hist, last, local>>

(***************************************************************************)
(* Requests                                                                *)
(***************************************************************************)
Tag_x  == <<"x">>
Tag_US == <<"U","S">>

TagPool == {Tag_priority, Tag_x, Tag_US}

UnknownEntityId == "p_404"

\* every list of at most two tags of the pool, repeats included
TagLists ==
    {<<>>} \cup {<<a>> : a \in TagPool} \cup {<<a, b>> : a \in TagPool, b \in TagPool}

FixtureUpdate == [id |-> "p_001", add |-> <<Tag_x>>, remove |-> <<Tag_priority>>]

FewTagUpdates ==
    { FixtureUpdate,
      [id |-> "o_101", add |-> <<Tag_US, Tag_US>>, remove |-> <<Tag_vendor>>],
      [id |-> UnknownEntityId, add |-> <<Tag_x>>, remove |-> <<Tag_priority>>] }

\* every add and remove list of the pool on p_001, and the few updates above
TagUpdates == [id : {"p_001"}, add : TagLists, remove : TagLists] \cup FewTagUpdates

Queries == { <<>>, <<"L","E">>, <<" ","A","n"," ">> }

TagFilters == { <<>>, <<"U","S">>, <<" ","u","s"," ">>, <<"v","e","n","d","o","r">> }

SearchQueries == [q : Queries, tag : TagFilters]

FewSearchQueries ==
    { [q |-> <<"L","E">>, tag |-> <<>>], [q |-> <<>>, tag |-> <<" ","u","s"," ">>] }

MaxLimit == 5

Limits == (0 - MaxLimit)..MaxLimit

JobIds == {"j1", "j2"}

UnknownJobId == "j404"

Pois == {"Acme Corp", "Jordan Lee"}

RunRequests == [poi : Pois]

(***************************************************************************)
(* Specifications                                                          *)
(***************************************************************************)
NoRequest == [op |-> "none", arg |-> "", status |-> 0, resp |-> ""]

NoJobs == [j \in {} |-> NewJob(j, "")]

Init ==
    /\ EMBRAIN_FIXTURES = InitialEntities
    /\ SOCIAL_FEED \in {MakeFeed(c) : c \in ClockReadings}
    /\ JOBS = NoJobs
    /\ hist = [j \in {} |-> <<>>]
    /\ last = NoRequest
    /\ pc = [t \in Threads |-> "idle"]
    /\ local = [t \in Threads |-> IdleLocal]
    /\ returned = 0

\* every handler, each request handled whole before the next one starts
Next ==
    \/ \E body \in FewSearchQueries : embrain_search(body)
    \/ \E body \in FewTagUpdates : embrain_update_tags(body)
    \/ \E limit \in Limits : social_dome_feed(limit)
    \/ \E req \in RunRequests, job_id \in JobIds : napoleon_run(req, job_id)
    \/ \E job_id \in JobIds \cup {UnknownJobId} : napoleon_status(job_id)

Spec == Init /\ [][Next]_vars

\* the entity store alone, under every search and tag update of the pools
NextTags ==
    \/ \E body \in SearchQueries : embrain_search(body)
    \/ \E body \in TagUpdates : embrain_update_tags(body)

InitTags ==
    /\ Init
    /\ SOCIAL_FEED = MakeFeed([i \in 1..4 |-> 0])

SpecTags == InitTags /\ [][NextTags]_vars

\* one job freshly stored by run, then polled by the worker threads
InitConc ==
    /\ EMBRAIN_FIXTURES = InitialEntities
    /\ SOCIAL_FEED = MakeFeed([i \in 1..4 |-> 0])
    /\ JOBS = Put(NoJobs, ConcJobId, NewJob(ConcJobId, ConcPoi))
    /\ hist = Put([j \in {} |-> <<>>], ConcJobId, <<>>)
    /\ last = [op |-> "run", arg |-> ConcPoi, status |-> 200,
               resp |-> NewJob(ConcJobId, ConcPoi)]
    /\ pc = [t \in Threads |-> "idle"]
    /\ local = [t \in Threads |-> IdleLocal]
    /\ returned = 0

NextConc ==
    \E t \in Threads :
        \/ T_get(t)
        \/ T_test_completed(t)
        \/ T_read_progress(t)
        \/ T_write_progress(t)
        \/ T_write_status(t)
        \/ T_check_len(t)
        \/ T_index(t)
        \/ T_append(t)
        \/ T_test_report(t)
        \/ T_return(t)

SpecConc == InitConc /\ [][NextConc]_vars

(***************************************************************************)
(* Properties                                                              *)
(***************************************************************************)
IsJobId(j) == j \in DOMAIN JOBS

\* C1: the first four status reads of a job since run stored it answer
\* progress 25, 50, 75, 100 and status running, running, running, completed,
\* with report_url absent on the first three and the fixed path on the
\* fourth, whatever other requests were handled in between.
C1_FirstFourPolls ==
    \A j \in DOMAIN JOBS :
        \A k \in 1..Len(hist[j]) :
            k <= 4 =>
                /\ hist[j][k].job_id = j
                /\ hist[j][k].progress = 25 * k
                /\ hist[j][k].status = (IF k < 4 THEN "running" ELSE "completed")
                /\ hist[j][k].report_url = (IF k < 4 THEN "None" ELSE ReportUrl)

C1_Witness ==
    \E j \in DOMAIN JOBS :
        /\ Len(hist[j]) = 4
        /\ \E k \in DOMAIN JOBS \ {j} : JOBS[k].progress = 50
        /\ EMBRAIN_FIXTURES # InitialEntities

\* C2: a status read of a completed job answers that job and leaves every
\* field of it as it was.
C2_TerminalIdempotent ==
    [][ (/\ last'.op = "status"
         /\ IsJobId(last'.arg)
         /\ JOBS[last'.arg].status = "completed")
        => (/\ last'.status = 200
            /\ last'.resp = JOBS[last'.arg]
            /\ JOBS'[last'.arg] = JOBS[last'.arg]) ]_vars

C2_Witness ==
    /\ last.op = "status"
    /\ last.status = 200
    /\ Len(hist[last.arg]) = 6
    /\ hist[last.arg][6] = hist[last.arg][4]
    /\ hist[last.arg][4].status = "completed"

\* C3: every stored job's activity log is the line "Queued job for {poi}"
\* followed by the first progress/25 step messages, in order, and never
\* holds more than five lines.
C3_ActivityLog ==
    \A j \in DOMAIN JOBS :
        /\ \E poi \in Pois :
              JOBS[j].activity =
                  <<QueuedLine(poi)>> \o SubSeq(step_messages, 1, JOBS[j].progress \div 25)
        /\ Len(JOBS[j].activity) <= 5

C3_Witness ==
    \E j \in DOMAIN JOBS :
        /\ JOBS[j].progress = 100
        /\ Len(JOBS[j].activity) = 5
        /\ JOBS[j].activity[5] = <<"Compiling report">>

NoRepeats(s) == \A i, k \in 1..Len(s) : i # k => s[i] # s[k]

FirstIndex(s, x) ==
    CHOOSE i \in 1..Len(s) : s[i] = x /\ \A k \in 1..(i - 1) : s[k] # x

\* new is old without the members of remove, in old's order, followed by the
\* tags of add that were not present when considered, in add order
TagsAsSpecified(old, new, body) ==
    LET kept  == SelectSeq(old, LAMBDA t : \A i \in 1..Len(body.remove) : body.remove[i] # t)
        n     == Len(kept)
        added == SubSeq(new, n + 1, Len(new))
    IN  /\ Len(new) >= n
        /\ SubSeq(new, 1, n) = kept
        /\ NoRepeats(added)
        /\ Range(added) = Range(body.add) \ Range(kept)
        /\ \A i, k \in 1..Len(added) :
              i < k => FirstIndex(body.add, added[i]) < FirstIndex(body.add, added[k])

EntityIndex(id) == CHOOSE i \in 1..Len(EMBRAIN_FIXTURES) : EMBRAIN_FIXTURES[i].id = id

\* C4: update_tags on an existing id leaves the entity's tags equal to the
\* previous tags without the members of remove, followed by the tags of add
\* not already present, in add order; the response carries these tags; and
\* on the initial fixture, p_001 with add [x] and remove [priority] gives
\* [us, x].
C4_UpdateTags ==
    [][ (last'.op = "update_tags"
         /\ \E i \in 1..Len(EMBRAIN_FIXTURES) : EMBRAIN_FIXTURES[i].id = last'.arg.id)
        => LET body == last'.arg
               i    == EntityIndex(body.id)
           IN  /\ last'.status = 200
               /\ TagsAsSpecified(EMBRAIN_FIXTURES[i].tags, EMBRAIN_FIXTURES'[i].tags, body)
               /\ last'.resp = EMBRAIN_FIXTURES'[i]
               /\ last'.resp.id = body.id
               /\ \A k \in 1..Len(EMBRAIN_FIXTURES) :
                     k # i => EMBRAIN_FIXTURES'[k] = EMBRAIN_FIXTURES[k]
               /\ (EMBRAIN_FIXTURES = InitialEntities /\ body = FixtureUpdate)
                     => last'.resp.tags = <<Tag_us, Tag_x>> ]_vars

C4_Witness ==
    /\ last.op = "update_tags"
    /\ last.status = 200
    /\ last.arg.add = <<Tag_priority, Tag_priority>>
    /\ last.arg.remove = <<Tag_priority, Tag_x>>
    /\ last.resp.tags = <<Tag_us, Tag_US, Tag_priority>>

\* C5: update_tags on an id no entity has, and a status read of a job id no
\* stored job has, answer 404 and change no entity and no job.
C5_NotFoundChangesNothing ==
    [][ /\ (last'.op = "update_tags"
            /\ \A i \in 1..Len(EMBRAIN_FIXTURES) : EMBRAIN_FIXTURES[i].id # last'.arg.id)
           => (last'.status = 404 /\ EMBRAIN_FIXTURES' = EMBRAIN_FIXTURES /\ JOBS' = JOBS)
        /\ (last'.op = "status" /\ ~IsJobId(last'.arg))
           => (last'.status = 404 /\ EMBRAIN_FIXTURES' = EMBRAIN_FIXTURES /\ JOBS' = JOBS)
      ]_vars

C5_Witness ==
    /\ last.op = "update_tags"
    /\ last.status = 404
    /\ last.arg.id = UnknownEntityId
    /\ EMBRAIN_FIXTURES # InitialEntities
    /\ \E j \in DOMAIN JOBS : JOBS[j].progress = 25

NameMatches(e, query) ==
    Strip(Lower(query)) = <<>> \/ Contains(Lower(e.name), Strip(Lower(query)))

\* C6 as amended: search answers exactly the entities whose lower-cased name
\* contains the lower-cased, trimmed query (or the query is then empty) and
\* one of whose tags, lower-cased, equals the lower-cased and trimmed tag
\* filter (or the filter is then empty), in fixture order, and changes no
\* entity.
C6_SearchTrimmedFilter ==
    [][ last'.op = "search"
        => /\ EMBRAIN_FIXTURES' = EMBRAIN_FIXTURES
           /\ last'.resp =
                SelectSeq(EMBRAIN_FIXTURES,
                          LAMBDA e :
                            /\ NameMatches(e, last'.arg.q)
                            /\ \/ Strip(Lower(last'.arg.tag)) = <<>>
                               \/ \E i \in 1..Len(e.tags) :
                                     Lower(e.tags[i]) = Strip(Lower(last'.arg.tag))) ]_vars

C6_Witness ==
    /\ last.op = "search"
    /\ last.arg.tag = <<" ","u","s"," ">>
    /\ last.arg.q = <<" ","A","n"," ">>
    /\ Len(last.resp) = 1
    /\ last.resp[1].id = "o_101"
    /\ last.resp[1].tags = <<Tag_US>>

\* C6 as claimed: the tag filter is only lower-cased, and counts as empty
\* only when it has no character at all.
C6_SearchAsClaimed ==
    [][ last'.op = "search"
        => /\ EMBRAIN_FIXTURES' = EMBRAIN_FIXTURES
           /\ last'.resp =
                SelectSeq(EMBRAIN_FIXTURES,
                          LAMBDA e :
                            /\ NameMatches(e, last'.arg.q)
                            /\ \/ last'.arg.tag = <<>>
                               \/ \E i \in 1..Len(e.tags) :
                                     Lower(e.tags[i]) = Lower(last'.arg.tag)) ]_vars

\* s holds the posts of feed, most recent first, equal timestamps in feed order
IsStableDescending(s, feed) ==
    /\ Len(s) = Len(feed)
    /\ \A i \in 1..Len(feed) : \E k \in 1..Len(s) : s[k] = feed[i]
    /\ \A i, k \in 1..Len(s) :
          i < k =>
            \/ s[i].created_at > s[k].created_at
            \/ /\ s[i].created_at = s[k].created_at
               /\ \E a, b \in 1..Len(feed) : a < b /\ feed[a] = s[i] /\ feed[b] = s[k]

\* C7: for every integer limit the feed answers a prefix of the posts sorted
\* most recent first (ties in fixture order) holding no more than limit
\* posts (none for a negative limit), and exactly min(limit, number of posts)
\* for limit >= 0.
C7_FeedTruncatedToLimit ==
    last.op = "feed" =>
        /\ \E n \in Len(last.resp)..Len(SOCIAL_FEED) :
              \E tail \in [1..(n - Len(last.resp)) -> Range(SOCIAL_FEED)] :
                  IsStableDescending(last.resp \o tail, SOCIAL_FEED)
        /\ Len(last.resp) <= Max(0, last.arg)
        /\ last.arg >= 0 => Len(last.resp) = Min(last.arg, Len(SOCIAL_FEED))

\* r's posts occur in s in the same relative order
IsSubsequence(r, s) ==
    \E f \in [1..Len(r) -> 1..Len(s)] :
        /\ \A i \in 1..Len(r) : r[i] = s[f[i]]
        /\ \A i, k \in 1..Len(r) : i < k => f[i] < f[k]

Reverse(s) == [i \in 1..Len(s) |-> s[Len(s) + 1 - i]]

\* C8 as amended: the feed with limit 2 answers exactly two posts, most
\* recent first, and they are posts of the fixture list in the opposite of
\* their fixture order (a subsequence of the fixture list reversed).
C8_FeedLimitTwo ==
    (last.op = "feed" /\ last.arg = 2) =>
        /\ Len(last.resp) = 2
        /\ last.resp[1].created_at >= last.resp[2].created_at
        /\ IsSubsequence(last.resp, Reverse(SOCIAL_FEED))

C8_Witness ==
    /\ last.op = "feed"
    /\ last.arg = 2
    /\ Len(last.resp) = 2
    /\ last.resp[1].id = "t4"
    /\ last.resp[2].id = "t3"

\* C8 as claimed: the two posts also occur in the fixture list in the order
\* in which they are returned.
C8_FeedLimitTwoAsClaimed ==
    (last.op = "feed" /\ last.arg = 2) =>
        /\ Len(last.resp) = 2
        /\ last.resp[1].created_at >= last.resp[2].created_at
        /\ IsSubsequence(last.resp, SOCIAL_FEED)

\* C9: run answers and stores a queued job with progress 0, no report_url
\* and the single line "Queued job for {poi}", under an id no stored job
\* has, so that the tracker gains one entry and every job stored before is
\* unchanged; and a status read changes no job but the one it names.
C9_RunAddsOneJob ==
    [][ /\ last'.op = "run"
           => LET j == last'.resp.job_id IN
              /\ last'.resp = [job_id |-> j, status |-> "queued", progress |-> 0,
                               activity |-> <<QueuedLine(last'.arg)>>,
                               report_url |-> "None"]
              /\ ~IsJobId(j)
              /\ DOMAIN JOBS' = DOMAIN JOBS \cup {j}
              /\ Cardinality(DOMAIN JOBS') = Cardinality(DOMAIN JOBS) + 1
              /\ JOBS'[j] = last'.resp
              /\ \A k \in DOMAIN JOBS : JOBS'[k] = JOBS[k]
        /\ last'.op = "status"
           => /\ DOMAIN JOBS' = DOMAIN JOBS
              /\ \A k \in DOMAIN JOBS \ {last'.arg} : JOBS'[k] = JOBS[k] ]_vars

\* C10: every status read run by the thread pool returns without raising,
\* and once all k reads of the job have returned it has progress
\* min(100, 25 k) and the queued line followed by the first min(4, k) step
\* messages.
C10_ConcurrentPolls ==
    /\ \A t \in Threads : local[t].raised = "None"
    /\ (returned > 0 /\ \A t \in Threads : pc[t] = "idle")
       => /\ JOBS[ConcJobId].progress = Min(100, 25 * returned)
          /\ JOBS[ConcJobId].activity =
                <<QueuedLine(ConcPoi)>> \o SubSeq(step_messages, 1, Min(4, returned))

====
